---- MODULE Spec2Model ----
(***************************************************************************)
(* hash_pass/server/server.go: the /hash, /stats and /shutdown handlers,   *)
(* the deferred delayAndUpdate goroutines and the shutdown drain, as one   *)
(* state machine.  Every handler runs on its own goroutine (net/http), so  *)
(* each shared-memory access or lock operation of a handler is one step.   *)
(***************************************************************************)
EXTENDS Integers, Sequences, FiniteSets, TLC

\* ------------------------------------------------------------- bounds
\* Number of inbound connections the listener accepts in a run.
NumConns == 3
\* Number of POST /hash requests with a password among them.
MaxTasks == 2
\* Largest value time.Since(startTime).Microseconds() takes.
MaxLatency == 1

\* ------------------------------------------------------------- constants
StatusOK == 200
StatusBadRequest == 400
StatusMethodNotAllowed == 405
StatusServiceUnavailable == 503

ErrInvalidId == "Error: Invalid task Id"
ErrPassword  == "Error: Missing or invalid password"
ErrShutdown  == "Service is shutting down, request rejected"
MsgFarewell  == "All requests have been processed, terminating service."
MethodNotAllowedText == "Method Not Allowed"

Conns == 1..NumConns
Passwords == {"", "angry", "monkey"}

\* URL paths as segment sequences: /hash, /hash/<id>, /stats, /shutdown.
HashPath == <<"hash">>
StatsPath == <<"stats">>
ShutdownPath == <<"shutdown">>
QueryPaths == {<<"hash", "1">>, <<"hash", "2">>}

\* The requests a client sends: the password form field only matters to POST /hash.
Requests ==
    [path : {HashPath}, method : {"POST"}, password : Passwords]
    \cup [path : QueryPaths, method : {"GET"}, password : {""}]
    \cup [path : {HashPath}, method : {"PUT"}, password : {""}]
    \cup [path : {<<"hash", "1">>}, method : {"POST"}, password : {"angry"}]
    \cup [path : {StatsPath, ShutdownPath}, method : {"GET", "POST"}, password : {""}]

NoRequest == [path |-> <<>>, method |-> "", password |-> ""]
NoResponse == [status |-> 0, body |-> ""]

\* sync.Mutex owners: a handler goroutine <<"h", r>> or an executor <<"e", i>>.
Free == <<"free", 0>>
Handler(r) == <<"h", r>>
Executor(i) == <<"e", i>>

VARIABLES
    requestID,    \* int64 request counter (line 52)
    resultMap,    \* map[string]string (line 54)
    mtxId,        \* owner of mtxId (line 56)
    mtxMap,       \* owner of mtxMap (line 56)
    elapsedTime,  \* int64 (line 58)
    bShutdown,    \* shutdown flag (line 62)
    process,      \* "running", "exited" (log.Fatal after ListenAndServe returns) or "crashed"
    request,      \* request[r]: the request connection r carries
    pc,           \* pc[r]: where r's handler goroutine stands
    num,          \* num[r]: doHash's local num
    result,       \* result[r]: doHash's local result
    count,        \* count[r]: doShutdown's local count
    stats,        \* stats[r]: getStats's local stats.Total
    et,           \* et[r]: getStats's local et
    response,     \* response[r]: what the handler wrote to w
    tasks,        \* the delayAndUpdate goroutines, in launch order
    stoppers,     \* number of goroutines of line 233 still sleeping
    issuedAtGate, \* history: requestID when r's doShutdown set bShutdown
    doneAtGate    \* history: len(resultMap) at that moment

vars == <<requestID, resultMap, mtxId, mtxMap, elapsedTime, bShutdown, process,
          request, pc, num, result, count, stats, et, response, tasks, stoppers,
          issuedAtGate, doneAtGate>>

shared == <<requestID, resultMap, mtxId, mtxMap, elapsedTime, bShutdown>>

\* ------------------------------------------------------------- pure helpers
Digits == <<"0", "1", "2", "3", "4", "5", "6", "7", "8", "9">>

\* strconv.FormatInt(n, 10) for n >= 0.
RECURSIVE FormatInt(_)
FormatInt(n) ==
    IF n < 10 THEN Digits[n + 1]
    ELSE FormatInt(n \div 10) \o Digits[(n % 10) + 1]

\* strings.TrimPrefix(r.URL.Path, HashPath+"/"): the text after "/hash/", or the
\* whole path when it does not start with "/hash/".
TrimPrefix(path) ==
    IF Len(path) >= 2 /\ path[1] = "hash" THEN path[2] ELSE "/hash"

\* base64.URLEncoding.EncodeToString(sha512.Sum512(pword)): an injective,
\* never-empty digest text.
Sha512Base64(pword) == "sha512(" \o pword \o ")"

\* resultMap[id]: the zero value "" when the key is absent.
MapGet(m, id) == IF id \in DOMAIN m THEN m[id] ELSE ""

\* Mutant of MapPut: the assignment drops the entries of the other keys.
MapPutAlone(m, id, sha) == [k \in {id} |-> sha]

\* resultMap[id] = sha
MapPut(m, id, sha) == [k \in DOMAIN m \cup {id} |-> IF k = id THEN sha ELSE m[k]]

\* len(resultMap)
MapLen(m) == Cardinality(DOMAIN m)

\* Mutant of CanLock: Lock never waits (the critical sections are unprotected).
CanLockUnguarded(m) == TRUE

\* sync.Mutex.Lock returns only when the mutex is free.
CanLock(m) == m = Free

\* Mutant of GateClosed: the handlers never look at the flag.
GateClosedIgnored(flag) == FALSE

\* if bShutdown { ... return }
GateClosed(flag) == flag

\* Mutant of MissingPassword: the form value is not validated.
MissingPasswordUnchecked(pw) == FALSE

\* if len(pw) == 0 (line 120)
MissingPassword(pw) == Len(pw) = 0

\* Mutant of Found: whatever the lookup yields is written as the result.
FoundAlways(res) == TRUE

\* if len(result) > 0 (line 107)
Found(res) == Len(res) > 0

\* Mutant of Increment: the counter is left where it was.
IncrementSkipped(n) == n

\* requestID++
Increment(n) == n + 1

\* Mutant of DrainDone: the loop breaks at its first comparison.
DrainDoneAlways(c, issued) == TRUE

\* Mutant of DrainDone: the loop breaks as soon as count has not passed requestID.
DrainDoneEarly(c, issued) == c <= issued

\* if int64(count) == requestID { break }
DrainDone(c, issued) == c = issued

Respond(r, st, body) == response' = [response EXCEPT ![r] = [status |-> st, body |-> body]]

Goto(r, where) == pc' = [pc EXCEPT ![r] = where]

Running == process = "running"

\* ------------------------------------------------------------- initial state
Init ==
    /\ requestID = 0
    /\ resultMap = <<>>
    /\ mtxId = Free
    /\ mtxMap = Free
    /\ elapsedTime = 0
    /\ bShutdown = FALSE
    /\ process = "running"
    /\ request = [r \in Conns |-> NoRequest]
    /\ pc = [r \in Conns |-> "idle"]
    /\ num = [r \in Conns |-> ""]
    /\ result = [r \in Conns |-> ""]
    /\ count = [r \in Conns |-> 0]
    /\ stats = [r \in Conns |-> 0]
    /\ et = [r \in Conns |-> 0]
    /\ response = [r \in Conns |-> NoResponse]
    /\ tasks = <<>>
    /\ stoppers = 0
    /\ issuedAtGate = [r \in Conns |-> 0]
    /\ doneAtGate = [r \in Conns |-> 0]

\* ------------------------------------------------------------- routing
\* http.HandleFunc registrations of StartServer: the handler a path reaches.
Route(path) ==
    IF path[1] = "hash" THEN "hash_gate"
    ELSE IF path = StatsPath THEN "stats_entry"
    ELSE "shut_entry"

\* A request that doHash will accept as a submission when the gate is open.
IsSubmission(req) ==
    /\ Len(req.path) >= 1 /\ req.path[1] = "hash"
    /\ req.method = "POST"
    /\ Len(req.password) > 0

Submissions == {q \in Conns : IsSubmission(request[q])}

\* The listener accepts connection r (connections are numbered in accept order)
\* and net/http starts its handler goroutine.
Accept(r) ==
    /\ Running
    /\ pc[r] = "idle"
    /\ IF r = 1 THEN TRUE ELSE pc[r - 1] # "idle"
    /\ \E req \in Requests :
        /\ IsSubmission(req) => Cardinality(Submissions) < MaxTasks
        /\ request' = [request EXCEPT ![r] = req]
        /\ Goto(r, Route(req.path))
    /\ UNCHANGED <<shared, process, num, count, response, tasks, stoppers, issuedAtGate, doneAtGate, stats, et, result>>

\* ------------------------------------------------------------- doHash
\* Lines 93-124: the gate check, then the method switch up to the first access
\* to shared state of the chosen branch.
HashGate(r) ==
    /\ Running
    /\ pc[r] = "hash_gate"
    /\ IF GateClosed(bShutdown)
       THEN Respond(r, StatusServiceUnavailable, ErrShutdown) /\ Goto(r, "done")
       ELSE CASE request[r].method = "GET" ->
                   Goto(r, "hash_get") /\ UNCHANGED response
              [] request[r].method = "POST" ->
                   IF MissingPassword(request[r].password)
                   THEN Respond(r, StatusBadRequest, ErrPassword) /\ Goto(r, "done")
                   ELSE Goto(r, "hash_lockId") /\ UNCHANGED response
              [] OTHER ->
                   Respond(r, StatusMethodNotAllowed, MethodNotAllowedText) /\ Goto(r, "done")
    /\ UNCHANGED <<shared, process, request, num, count, tasks, stoppers, issuedAtGate, doneAtGate, stats, et, result>>

\* The delayAndUpdate goroutines inside resultMap[requestId] = sha (line 82).
Writers == {i \in 1..Len(tasks) : tasks[i].pc = "put"}

\* What result := resultMap[id] (line 106) can yield.  The read takes no lock:
\* with no write in progress it is the stored value; overlapping a write it is a
\* data race on the map, and the read may see the map before or after the write
\* or miss the key (a lookup walking buckets that are being grown).
LookupResults(id) ==
    IF Writers = {} THEN {MapGet(resultMap, id)}
    ELSE {MapGet(resultMap, id), ""}
         \cup {tasks[i].sha : i \in {j \in Writers : tasks[j].requestId = id}}

\* Lines 105-106: id := strings.TrimPrefix(...); result := resultMap[id]
HashGet(r) ==
    /\ Running
    /\ pc[r] = "hash_get"
    /\ \E res \in LookupResults(TrimPrefix(request[r].path)) :
        result' = [result EXCEPT ![r] = res]
    /\ Goto(r, "hash_answer")
    /\ UNCHANGED <<shared, process, request, num, count, stats, et, response, tasks,
                   stoppers, issuedAtGate, doneAtGate>>

\* Lines 107-116: the result when it is not empty, else ErrInvalidId.
HashAnswer(r) ==
    /\ Running
    /\ pc[r] = "hash_answer"
    /\ IF Found(result[r])
       THEN Respond(r, StatusOK, result[r])
       ELSE Respond(r, StatusBadRequest, ErrInvalidId)
    /\ Goto(r, "done")
    /\ UNCHANGED <<shared, process, request, num, result, count, stats, et, tasks,
                   stoppers, issuedAtGate, doneAtGate>>

\* Line 106 while a writer is inside the map assignment: the runtime's check of
\* the map's writing flag ends the process ("concurrent map read and map write").
HashGetFatal(r) ==
    /\ Running
    /\ pc[r] = "hash_get"
    /\ Writers # {}
    /\ process' = "crashed"
    /\ UNCHANGED <<shared, request, pc, num, count, response, tasks, stoppers, issuedAtGate, doneAtGate, stats, et, result>>

\* Line 126: mtxId.Lock()
HashLockId(r) ==
    /\ Running
    /\ pc[r] = "hash_lockId"
    /\ CanLock(mtxId)
    /\ mtxId' = Handler(r)
    /\ Goto(r, "hash_inc")
    /\ UNCHANGED <<requestID, resultMap, mtxMap, elapsedTime, bShutdown, process,
                   request, num, count, response, tasks, stoppers, issuedAtGate, doneAtGate, stats, et, result>>

\* Line 127: requestID++
HashInc(r) ==
    /\ Running
    /\ pc[r] = "hash_inc"
    /\ requestID' = Increment(requestID)
    /\ Goto(r, "hash_fmt")
    /\ UNCHANGED <<resultMap, mtxId, mtxMap, elapsedTime, bShutdown, process,
                   request, num, count, response, tasks, stoppers, issuedAtGate, doneAtGate, stats, et, result>>

\* Lines 128-129: num := strconv.FormatInt(requestID, 10); mtxId.Unlock()
HashFmt(r) ==
    /\ Running
    /\ pc[r] = "hash_fmt"
    /\ num' = [num EXCEPT ![r] = FormatInt(requestID)]
    /\ mtxId' = Free
    /\ Goto(r, "hash_go")
    /\ UNCHANGED <<requestID, resultMap, mtxMap, elapsedTime, bShutdown, process,
                   request, count, response, tasks, stoppers, issuedAtGate, doneAtGate, stats, et, result>>

\* Line 132: go delayAndUpdate(num, pw)
HashGo(r) ==
    /\ Running
    /\ pc[r] = "hash_go"
    /\ tasks' = Append(tasks, [requestId |-> num[r], pword |-> request[r].password,
                               sha |-> "", pc |-> "delay"])
    /\ Goto(r, "hash_reply")
    /\ UNCHANGED <<shared, process, request, num, count, response, stoppers, issuedAtGate, doneAtGate, stats, et, result>>

\* Mutant of HashReply: the identifier is written only once the goroutine
\* launched for it has stored its entry.
HashReplyAfterTask(r) ==
    /\ Running
    /\ pc[r] = "hash_reply"
    /\ num[r] \in DOMAIN resultMap
    /\ Respond(r, StatusOK, num[r])
    /\ Goto(r, "hash_lockStat")
    /\ UNCHANGED <<shared, process, request, num, count, tasks, stoppers, issuedAtGate, doneAtGate, stats, et, result>>

\* Line 135: fmt.Fprintf(w, num)
HashReply(r) ==
    /\ Running
    /\ pc[r] = "hash_reply"
    /\ Respond(r, StatusOK, num[r])
    /\ Goto(r, "hash_lockStat")
    /\ UNCHANGED <<shared, process, request, num, count, tasks, stoppers, issuedAtGate, doneAtGate, stats, et, result>>

\* Line 141: mtxId.Lock()
HashLockStat(r) ==
    /\ Running
    /\ pc[r] = "hash_lockStat"
    /\ CanLock(mtxId)
    /\ mtxId' = Handler(r)
    /\ Goto(r, "hash_stat")
    /\ UNCHANGED <<requestID, resultMap, mtxMap, elapsedTime, bShutdown, process,
                   request, num, count, response, tasks, stoppers, issuedAtGate, doneAtGate, stats, et, result>>

\* Lines 142-143: elapsedTime += time.Since(startTime).Microseconds(); mtxId.Unlock()
HashStat(r) ==
    /\ Running
    /\ pc[r] = "hash_stat"
    /\ \E d \in 0..MaxLatency : elapsedTime' = elapsedTime + d
    /\ mtxId' = Free
    /\ Goto(r, "done")
    /\ UNCHANGED <<requestID, resultMap, mtxMap, bShutdown, process,
                   request, num, count, response, tasks, stoppers, issuedAtGate, doneAtGate, stats, et, result>>

\* ------------------------------------------------------------- delayAndUpdate
\* Lines 72-81: time.Sleep(DelayTime), the digest, then mtxMap.Lock().
ExecLock(i) ==
    /\ Running
    /\ i \in 1..Len(tasks)
    /\ tasks[i].pc = "delay"
    /\ CanLock(mtxMap)
    /\ mtxMap' = Executor(i)
    /\ tasks' = [tasks EXCEPT ![i].sha = Sha512Base64(tasks[i].pword), ![i].pc = "put"]
    /\ UNCHANGED <<requestID, resultMap, mtxId, elapsedTime, bShutdown, process,
                   request, pc, num, count, response, stoppers, issuedAtGate, doneAtGate, stats, et, result>>

\* Lines 82-83: resultMap[requestId] = sha; mtxMap.Unlock()
ExecPut(i) ==
    /\ Running
    /\ i \in 1..Len(tasks)
    /\ tasks[i].pc = "put"
    /\ resultMap' = MapPut(resultMap, tasks[i].requestId, tasks[i].sha)
    /\ mtxMap' = Free
    /\ tasks' = [tasks EXCEPT ![i].pc = "done"]
    /\ UNCHANGED <<requestID, mtxId, elapsedTime, bShutdown, process,
                   request, pc, num, count, response, stoppers, issuedAtGate, doneAtGate, stats, et, result>>

\* ------------------------------------------------------------- getStats
\* Mutant of Average: the quotient is rounded up.
AverageRoundedUp(elapsed, total) ==
    IF total # 0 THEN (elapsed + total - 1) \div total ELSE 0

\* stats.Average = et / stats.Total unless Total is 0 (lines 170-183).
Average(elapsed, total) == IF total # 0 THEN elapsed \div total ELSE 0

\* json.Marshal(RequestStat{Total, Average})
StatsJSON(total, average) ==
    "{\"total\":" \o FormatInt(total) \o ",\"average\":" \o FormatInt(average) \o "}"

\* if r.Method != http.MethodGet (lines 158 and 201)
NotGet(method) == method # "GET"

\* Lines 158-167: the method check, then the gate check.
StatsEntry(r) ==
    /\ Running
    /\ pc[r] = "stats_entry"
    /\ IF NotGet(request[r].method)
       THEN Respond(r, StatusMethodNotAllowed, MethodNotAllowedText) /\ Goto(r, "done")
       ELSE IF GateClosed(bShutdown)
       THEN Respond(r, StatusServiceUnavailable, ErrShutdown) /\ Goto(r, "done")
       ELSE Goto(r, "stats_lock") /\ UNCHANGED response
    /\ UNCHANGED <<shared, process, request, num, count, tasks, stoppers, issuedAtGate, doneAtGate, stats, et, result>>

\* Line 175: mtxId.Lock()
StatsLock(r) ==
    /\ Running
    /\ pc[r] = "stats_lock"
    /\ CanLock(mtxId)
    /\ mtxId' = Handler(r)
    /\ Goto(r, "stats_read")
    /\ UNCHANGED <<requestID, resultMap, mtxMap, elapsedTime, bShutdown, process,
                   request, num, count, response, tasks, stoppers, issuedAtGate, doneAtGate, stats, et, result>>

\* Mutant of StatsRead: getStats goes on without mtxId.Unlock().
StatsReadHolding(r) ==
    /\ Running
    /\ pc[r] = "stats_read"
    /\ stats' = [stats EXCEPT ![r] = requestID]
    /\ et' = [et EXCEPT ![r] = elapsedTime]
    /\ Goto(r, "stats_reply")
    /\ UNCHANGED <<shared, process, request, num, count, response, tasks, stoppers,
                   issuedAtGate, doneAtGate, result>>

\* Lines 176-178: stats.Total = requestID; et := elapsedTime; mtxId.Unlock()
StatsRead(r) ==
    /\ Running
    /\ pc[r] = "stats_read"
    /\ stats' = [stats EXCEPT ![r] = requestID]
    /\ et' = [et EXCEPT ![r] = elapsedTime]
    /\ mtxId' = Free
    /\ Goto(r, "stats_reply")
    /\ UNCHANGED <<requestID, resultMap, mtxMap, elapsedTime, bShutdown, process,
                   request, num, count, response, tasks, stoppers, issuedAtGate, doneAtGate, result>>

\* Lines 181-187: the division on the two locals, then w.Write of the JSON.
StatsReply(r) ==
    /\ Running
    /\ pc[r] = "stats_reply"
    /\ Respond(r, StatusOK, StatsJSON(stats[r], Average(et[r], stats[r])))
    /\ Goto(r, "done")
    /\ UNCHANGED <<shared, process, request, num, count, stats, et, tasks, stoppers,
                   issuedAtGate, doneAtGate, result>>

\* ------------------------------------------------------------- doShutdown
\* Mutant of SetFlag: the assignment flips the flag.
SetFlagFlipped(flag) == ~flag

\* bShutdown = true (line 208): the value the flag takes, whatever it held.
SetFlag(flag) == TRUE

\* Lines 201-208: the method check, then bShutdown = true.
ShutEntry(r) ==
    /\ Running
    /\ pc[r] = "shut_entry"
    /\ IF NotGet(request[r].method)
       THEN /\ Respond(r, StatusMethodNotAllowed, MethodNotAllowedText)
            /\ Goto(r, "done")
            /\ UNCHANGED <<bShutdown, issuedAtGate, doneAtGate>>
       ELSE /\ bShutdown' = SetFlag(bShutdown)
            /\ issuedAtGate' = [issuedAtGate EXCEPT ![r] = requestID]
            /\ doneAtGate' = [doneAtGate EXCEPT ![r] = MapLen(resultMap)]
            /\ Goto(r, "shut_lock")
            /\ UNCHANGED response
    /\ UNCHANGED <<requestID, resultMap, mtxId, mtxMap, elapsedTime, process,
                   request, num, count, tasks, stoppers, stats, et, result>>

\* Line 215: mtxMap.Lock()
ShutLock(r) ==
    /\ Running
    /\ pc[r] = "shut_lock"
    /\ CanLock(mtxMap)
    /\ mtxMap' = Handler(r)
    /\ Goto(r, "shut_count")
    /\ UNCHANGED <<requestID, resultMap, mtxId, elapsedTime, bShutdown, process,
                   request, num, count, response, tasks, stoppers, issuedAtGate, doneAtGate, stats, et, result>>

\* Lines 216-217: count := len(resultMap); mtxMap.Unlock()
ShutCount(r) ==
    /\ Running
    /\ pc[r] = "shut_count"
    /\ count' = [count EXCEPT ![r] = MapLen(resultMap)]
    /\ mtxMap' = Free
    /\ Goto(r, "shut_cmp")
    /\ UNCHANGED <<requestID, resultMap, mtxId, elapsedTime, bShutdown, process,
                   request, num, response, tasks, stoppers, issuedAtGate, doneAtGate, stats, et, result>>

\* Lines 218-222: compare with requestID (read without mtxId); break, or sleep
\* 100 ms and poll again.
ShutCompare(r) ==
    /\ Running
    /\ pc[r] = "shut_cmp"
    /\ IF DrainDone(count[r], requestID)
       THEN Goto(r, "shut_farewell")
       ELSE Goto(r, "shut_lock")
    /\ UNCHANGED <<shared, process, request, num, count, response, tasks, stoppers,
                   issuedAtGate, doneAtGate, stats, et, result>>

\* Lines 226-239: write the farewell, start the goroutine that stops the server.
ShutFarewell(r) ==
    /\ Running
    /\ pc[r] = "shut_farewell"
    /\ Respond(r, StatusOK, MsgFarewell)
    /\ stoppers' = stoppers + 1
    /\ Goto(r, "done")
    /\ UNCHANGED <<shared, process, request, num, count, tasks, issuedAtGate, doneAtGate, stats, et, result>>

\* Lines 234-235 and 252: after the grace period httpServer.Shutdown closes the
\* listener, ListenAndServe returns and log.Fatal exits the process, with whatever
\* goroutines are still running.
Terminate ==
    /\ Running
    /\ stoppers > 0
    /\ stoppers' = stoppers - 1
    /\ process' = "exited"
    /\ UNCHANGED <<shared, request, pc, num, count, response, tasks, issuedAtGate, doneAtGate, stats, et, result>>

\* ------------------------------------------------------------- specification
HandlerStep(r) ==
    \/ HashGate(r) \/ HashGet(r) \/ HashAnswer(r) \/ HashLockId(r) \/ HashInc(r) \/ HashFmt(r)
    \/ HashGo(r) \/ HashReply(r) \/ HashLockStat(r) \/ HashStat(r)
    \/ StatsEntry(r) \/ StatsLock(r) \/ StatsRead(r) \/ StatsReply(r)
    \/ ShutEntry(r) \/ ShutLock(r) \/ ShutCount(r) \/ ShutCompare(r) \/ ShutFarewell(r)

ExecStep(i) == ExecLock(i) \/ ExecPut(i)

Next ==
    \/ \E r \in Conns : Accept(r)
    \/ \E r \in Conns : HashGate(r)
    \/ \E r \in Conns : HashGet(r)
    \/ \E r \in Conns : HashAnswer(r)
    \/ \E r \in Conns : HashGetFatal(r)
    \/ \E r \in Conns : HashLockId(r)
    \/ \E r \in Conns : HashInc(r)
    \/ \E r \in Conns : HashFmt(r)
    \/ \E r \in Conns : HashGo(r)
    \/ \E r \in Conns : HashReply(r)
    \/ \E r \in Conns : HashLockStat(r)
    \/ \E r \in Conns : HashStat(r)
    \/ \E r \in Conns : StatsEntry(r)
    \/ \E r \in Conns : StatsLock(r)
    \/ \E r \in Conns : StatsRead(r)
    \/ \E r \in Conns : StatsReply(r)
    \/ \E r \in Conns : ShutEntry(r)
    \/ \E r \in Conns : ShutLock(r)
    \/ \E r \in Conns : ShutCount(r)
    \/ \E r \in Conns : ShutCompare(r)
    \/ \E r \in Conns : ShutFarewell(r)
    \/ \E i \in 1..MaxTasks : ExecLock(i)
    \/ \E i \in 1..MaxTasks : ExecPut(i)
    \/ Terminate

Spec == Init /\ [][Next]_vars

\* The Go scheduler runs every runnable goroutine, a sync.Mutex is handed to
\* every waiter (starvation mode), and the sleeping goroutines wake up.
Fairness ==
    /\ \A r \in Conns : SF_vars(HandlerStep(r))
    /\ \A i \in 1..MaxTasks : SF_vars(ExecStep(i))
    /\ WF_vars(Terminate)

FairSpec == Spec /\ Fairness

\* ------------------------------------------------------------- vocabulary of the properties
\* The decimal text of the identifiers 1..n.
IdTexts(n) == {FormatInt(k) : k \in 1..n}

\* The delayAndUpdate goroutines that have not written their entry yet.
Outstanding == {i \in 1..Len(tasks) : tasks[i].pc # "done"}

\* Connections whose doHash has taken an identifier (line 128).
Allocated == {r \in Conns : num[r] # ""}

\* Connections whose doHash has written the identifier to the client (line 135).
Returned == {r \in Conns : IsSubmission(request[r]) /\ response[r].status = StatusOK}

Rejected(r) == response[r] = [status |-> StatusServiceUnavailable, body |-> ErrShutdown]

SaidFarewell(r) == response[r] = [status |-> StatusOK, body |-> MsgFarewell]

\* The step in which r's handler reads bShutdown: line 94 for every method of
\* /hash, line 164 for GET /stats.
GateCheckStep(r) ==
    \/ pc[r] = "hash_gate" /\ pc'[r] # "hash_gate"
    \/ pc[r] = "stats_entry" /\ pc'[r] # "stats_entry" /\ request[r].method = "GET"

\* ------------------------------------------------------------- C1
\* C1: once bShutdown is true, requestID never increases again and no new
\* delayAndUpdate goroutine is launched.
C1_NoAllocationAfterShutdown ==
    [][bShutdown => (requestID' = requestID /\ Len(tasks') = Len(tasks))]_vars

\* ------------------------------------------------------------- C2
\* C2: where a shutdown request has written the farewell, every identifier
\* 1..requestID as of the moment that request set the flag has its entry in
\* resultMap.
C2_FarewellAfterAccepted ==
    \A r \in Conns :
        SaidFarewell(r) => IdTexts(issuedAtGate[r]) \subseteq DOMAIN resultMap

\* C2's case: the farewell of a shutdown that began with an identifier issued
\* and not yet in resultMap.
C2_Witness ==
    \E r \in Conns :
        SaidFarewell(r) /\ issuedAtGate[r] >= 1 /\ doneAtGate[r] < issuedAtGate[r]

\* ------------------------------------------------------------- C3
\* C3: when the shutdown sequence has terminated the listener, every identifier
\* ever allocated has its entry and no delayAndUpdate goroutine is outstanding.
C3_TerminationAfterAllTasks ==
    process = "exited" =>
        /\ IdTexts(requestID) \subseteq DOMAIN resultMap
        /\ Outstanding = {}

\* ------------------------------------------------------------- C4
\* C4: the identifiers taken by the admitted submissions are pairwise distinct
\* and are exactly the decimal texts of 1..N, N the number of submissions that
\* have taken one; each is what the submission returns.
C4_DistinctContiguousIds ==
    /\ \A r, q \in Allocated : r # q => num[r] # num[q]
    /\ {num[r] : r \in Allocated} = IdTexts(Cardinality(Allocated))
    /\ \A r \in Returned : r \in Allocated /\ response[r].body = num[r]

\* C4's case: two submissions in flight at once, both with their identifier
\* returned.
C4_Witness ==
    \E r, q \in Returned :
        r # q /\ pc[r] = "hash_lockStat" /\ pc[q] = "hash_lockStat"

\* ------------------------------------------------------------- C5
\* C5: a /hash request (any method) or GET /stats whose gate check reads
\* bShutdown as true is answered 503 and ends there, with requestID, elapsedTime,
\* resultMap and the launched goroutines unchanged.
C5_ClosedGateRejects ==
    [][\A r \in Conns :
          (bShutdown /\ GateCheckStep(r)) =>
              /\ Rejected(r)'
              /\ pc'[r] = "done"
              /\ UNCHANGED <<requestID, elapsedTime, resultMap, tasks>>]_vars

\* C5's case: a submission and a stats request both turned away by the gate.
C5_Witness ==
    \E r, q \in Conns :
        /\ IsSubmission(request[r]) /\ Rejected(r)
        /\ request[q].path = StatsPath /\ Rejected(q)

\* ------------------------------------------------------------- C6
\* C6: every launched delayAndUpdate goroutine runs to completion and writes
\* its entry, also when the listener is terminated during its delay: once the
\* process has exited, no launched goroutine is left short of its write.
C6_EveryTaskCompletes ==
    process = "exited" =>
        \A i \in 1..Len(tasks) :
            tasks[i].pc = "done" /\ tasks[i].requestId \in DOMAIN resultMap

\* The same as a liveness property of FairSpec: once requestID has reached n,
\* resultMap eventually holds the text of n.
C6_EveryIdEventuallyStored ==
    \A n \in 1..MaxTasks :
        (requestID >= n) ~> (FormatInt(n) \in DOMAIN resultMap)

\* ------------------------------------------------------------- C7
\* The polling loop of doShutdown (lines 214-223).
InDrainLoop(r) == pc[r] \in {"shut_lock", "shut_count", "shut_cmp"}

\* C7: every shutdown request leaves its polling loop and writes the farewell:
\* when the process has stopped running, no doShutdown is left inside the loop.
C7_DrainLoopLeft ==
    process # "running" => \A r \in Conns : ~InDrainLoop(r)

\* The same as a liveness property of FairSpec.
C7_DrainTerminates ==
    \A r \in Conns : InDrainLoop(r) ~> SaidFarewell(r)

\* C7 as the code has it: a doShutdown inside its polling loop leaves it and
\* writes the farewell, or the process stops first.
C7_DrainTerminatesOrStops ==
    \A r \in Conns : InDrainLoop(r) ~> (SaidFarewell(r) \/ process # "running")

\* ------------------------------------------------------------- C8
\* The step in which r's doHash looks its identifier up (lines 105-106), and
\* the step in which it answers from what the lookup gave (lines 107-116).
QueryStep(r) == pc[r] = "hash_get" /\ pc'[r] = "hash_answer"

QueryAnswerStep(r) == pc[r] = "hash_answer" /\ pc'[r] = "done"

QueryId(r) == TrimPrefix(request[r].path)

\* The passwords of the submissions that were issued the identifier id.
InputsOf(id) == {request[q].password : q \in {c \in Allocated : num[c] = id}}

\* C8: a query for an identifier whose entry is in resultMap is answered 200
\* with the digest of the password of the submission that was issued that
\* identifier: the lookup yields that digest, and the answer is 200 with what
\* the lookup yielded.
C8_QueryReturnsOwnDigest ==
    [][\A r \in Conns :
          /\ (QueryStep(r) /\ QueryId(r) \in DOMAIN resultMap) =>
                \E pw \in InputsOf(QueryId(r)) : result'[r] = Sha512Base64(pw)
          /\ QueryAnswerStep(r) =>
                \/ result[r] = ""
                \/ response'[r] = [status |-> StatusOK, body |-> result[r]]]_vars

\* ------------------------------------------------------------- C9
\* An identifier never issued, or issued with its goroutine still short of the
\* map write.
NoEntry(id) ==
    /\ id \notin DOMAIN resultMap
    /\ \A i \in Writers : tasks[i].requestId # id

\* C9: a query for an identifier without an entry is answered 400 with
\* ErrInvalidId: the lookup yields the empty string and the answer to an empty
\* lookup is 400 with ErrInvalidId; requestID, elapsedTime, resultMap and the
\* launched goroutines are unchanged by both.
C9_AbsentIdIsBadRequest ==
    [][\A r \in Conns :
          /\ (QueryStep(r) /\ NoEntry(QueryId(r))) =>
                /\ result'[r] = ""
                /\ UNCHANGED <<requestID, elapsedTime, resultMap, tasks>>
          /\ (QueryAnswerStep(r) /\ result[r] = "") =>
                /\ response'[r] = [status |-> StatusBadRequest, body |-> ErrInvalidId]
                /\ UNCHANGED <<requestID, elapsedTime, resultMap, tasks>>]_vars

\* C9's case: two queries answered 400, one for an identifier that was issued
\* and is still in its delay, one for an identifier never issued.
C9_Witness ==
    \E r, q \in Conns :
        /\ response[r] = [status |-> StatusBadRequest, body |-> ErrInvalidId]
        /\ response[q] = [status |-> StatusBadRequest, body |-> ErrInvalidId]
        /\ \E i \in 1..Len(tasks) : tasks[i].requestId = QueryId(r) /\ tasks[i].pc = "delay"
        /\ QueryId(q) \notin IdTexts(requestID)

\* ------------------------------------------------------------- C10
\* The step in which r's doHash finds the POST without a password (lines 119-124).
EmptySubmissionStep(r) ==
    /\ pc[r] = "hash_gate" /\ pc'[r] # "hash_gate"
    /\ ~bShutdown
    /\ request[r].method = "POST"
    /\ request[r].password = ""

\* C10: a POST without a password arriving at the open gate is answered 400
\* with ErrPassword and ends there with requestID, elapsedTime and the launched
\* goroutines unchanged; and requestID only ever moves by one, in the step of a
\* submission that carries a password, which takes no second identifier.
C10_EmptyPasswordAllocatesNothing ==
    [][/\ \A r \in Conns :
            EmptySubmissionStep(r) =>
                /\ response'[r] = [status |-> StatusBadRequest, body |-> ErrPassword]
                /\ pc'[r] = "done"
                /\ UNCHANGED <<requestID, elapsedTime, tasks>>
       /\ requestID' # requestID =>
            /\ requestID' = requestID + 1
            /\ \E r \in Conns :
                /\ pc[r] = "hash_inc" /\ pc'[r] = "hash_fmt"
                /\ IsSubmission(request[r])
                /\ num[r] = ""
       /\ Len(tasks') # Len(tasks) =>
            \E r \in Conns :
                /\ pc[r] = "hash_go"
                /\ IsSubmission(request[r])
                /\ tasks' = Append(tasks, [requestId |-> num[r], pword |-> request[r].password,
                                           sha |-> "", pc |-> "delay"])]_vars

\* C10's case: a POST without a password turned away after another submission
\* was accepted.
C10_Witness ==
    \E r \in Conns :
        /\ request[r].method = "POST" /\ request[r].path = HashPath
        /\ request[r].password = ""
        /\ response[r] = [status |-> StatusBadRequest, body |-> ErrPassword]
        /\ requestID >= 1

\* ------------------------------------------------------------- C11
\* The step in which r's getStats reads both counters (lines 176-178), and the
\* step in which it answers from what it read (lines 181-187).
StatsReadStep(r) == pc[r] = "stats_read" /\ pc'[r] = "stats_reply"

StatsReplyStep(r) == pc[r] = "stats_reply" /\ pc'[r] = "done"

\* C11: a stats call that passed the gate takes the number of identifiers
\* taken so far and elapsedTime in one step, as they stand together in one
\* state, and is answered 200 with that total and the floor of that elapsedTime
\* over that total, 0 when the total is 0, whatever has changed since.
C11_StatsSnapshot ==
    [][\A r \in Conns :
          /\ StatsReadStep(r) =>
                stats'[r] = Cardinality(Allocated) /\ et'[r] = elapsedTime
          /\ StatsReplyStep(r) =>
                \E avg \in 0..et[r] :
                    /\ stats[r] = 0 => avg = 0
                    /\ stats[r] > 0 =>
                          avg * stats[r] <= et[r] /\ et[r] < (avg + 1) * stats[r]
                    /\ response'[r] =
                          [status |-> StatusOK, body |-> StatsJSON(stats[r], avg)]
          /\ (response'[r] # response[r] /\ request[r].path = StatsPath
               /\ response'[r].status = StatusOK) => StatsReplyStep(r)
          /\ pc[r] = "stats_reply" => stats'[r] = stats[r] /\ et'[r] = et[r]]_vars

\* C11's case: a stats call that read two identifiers taken and a latency sum
\* of 1 has answered with the average rounded down to 0.
C11_Witness ==
    \E r \in Conns :
        /\ request[r].path = StatsPath
        /\ stats[r] = 2 /\ et[r] = 1
        /\ response[r] = [status |-> StatusOK, body |-> StatsJSON(2, 0)]

\* ------------------------------------------------------------- C12
\* The methods the README's table gives each endpoint: POST for /hash, GET for
\* /hash/<id>, /stats and /shutdown.
SupportedMethods(path) == IF path = HashPath THEN {"POST"} ELSE {"GET"}

\* The first step of r's handler when it was entered with a method its endpoint
\* does not support.
WrongMethodStep(r) ==
    /\ pc[r] \in {"hash_gate", "stats_entry", "shut_entry"}
    /\ pc'[r] # pc[r]
    /\ request[r].method \notin SupportedMethods(request[r].path)

MethodNotAllowed(r) ==
    response[r] = [status |-> StatusMethodNotAllowed, body |-> MethodNotAllowedText]

\* C12: a request with a method its endpoint does not support is answered 405
\* and ends there, whatever bShutdown is, with the shared state, the launched
\* goroutines and the pending listener stops unchanged.
C12_WrongMethodIs405 ==
    [][\A r \in Conns :
          WrongMethodStep(r) =>
              /\ MethodNotAllowed(r)'
              /\ pc'[r] = "done"
              /\ UNCHANGED <<shared, tasks, stoppers>>]_vars

\* The methods the handlers switch on: doHash serves GET and POST on both of
\* its paths (lines 103, 117), getStats and doShutdown serve GET.
ServedMethods(path) == IF path[1] = "hash" THEN {"GET", "POST"} ELSE {"GET"}

\* C12 as far as the code has it: a method the handler does not serve is
\* answered 405 with no state changed, by /stats and /shutdown in every state
\* and by /hash while bShutdown is false; /hash looks at bShutdown first (line
\* 94) and answers 503 once it is true.
C12_UnservedMethodBehindGate ==
    [][\A r \in Conns :
          (/\ pc[r] \in {"hash_gate", "stats_entry", "shut_entry"}
           /\ pc'[r] # pc[r]
           /\ request[r].method \notin ServedMethods(request[r].path)) =>
              /\ IF request[r].path[1] = "hash" /\ bShutdown
                 THEN Rejected(r)' ELSE MethodNotAllowed(r)'
              /\ pc'[r] = "done"
              /\ UNCHANGED <<shared, tasks, stoppers>>]_vars

\* ------------------------------------------------------------- C13
\* The step in which delayAndUpdate goroutine i assigns its entry (line 82).
PutStep(i) == i \in 1..Len(tasks) /\ tasks[i].pc = "put" /\ tasks'[i].pc = "done"

\* C13: resultMap is write-once.  An entry, once present, keeps its value and
\* stays; the map changes only in the assignment step of one delayAndUpdate
\* goroutine, which adds the one entry of its own identifier, absent until
\* then; and no two goroutines carry the same identifier, so the entries are
\* exactly the identifiers of the goroutines that have done their assignment.
C13_WriteOnceRegistry ==
    [][/\ \A id \in DOMAIN resultMap :
            id \in DOMAIN resultMap' /\ resultMap'[id] = resultMap[id]
       /\ resultMap' # resultMap =>
            \E i \in 1..Len(tasks) :
                /\ PutStep(i)
                /\ tasks[i].requestId \notin DOMAIN resultMap
                /\ DOMAIN resultMap' = DOMAIN resultMap \cup {tasks[i].requestId}
                /\ resultMap'[tasks[i].requestId] = Sha512Base64(tasks[i].pword)
                /\ \A j \in 1..Len(tasks) : j # i => tasks'[j] = tasks[j]
       /\ \A i, j \in 1..Len(tasks') :
            i # j => tasks'[i].requestId # tasks'[j].requestId
       /\ DOMAIN resultMap' =
            {tasks'[i].requestId : i \in {j \in 1..Len(tasks') : tasks'[j].pc = "done"}}]_vars

\* C13's case: two goroutines have each written their entry, the second with
\* the first already present.
C13_Witness ==
    /\ Len(tasks) = 2
    /\ \A i \in 1..2 : tasks[i].pc = "done"
    /\ DOMAIN resultMap = {"1", "2"}
    /\ resultMap["1"] # resultMap["2"]

\* ------------------------------------------------------------- C14
\* The step in which r's doShutdown takes len(resultMap) (line 216).
CountStep(r) == pc[r] = "shut_count" /\ pc'[r] = "shut_cmp"

\* C14: every assignment to resultMap (line 82), every lookup (line 106) and
\* every len (line 216) is a step of the goroutine that holds mtxMap, so no
\* lookup or len is taken with an assignment in progress.
C14_RegistryUnderLock ==
    [][/\ \A i \in 1..Len(tasks) : PutStep(i) => mtxMap = Executor(i)
       /\ \A r \in Conns : CountStep(r) => mtxMap = Handler(r)
       /\ \A r \in Conns : QueryStep(r) => mtxMap = Handler(r) /\ Writers = {}]_vars

\* C14 as far as the code has it: the assignments and the len are steps of the
\* holder of mtxMap, and never overlap each other.
C14_PutAndCountUnderLock ==
    [][/\ \A i \in 1..Len(tasks) :
            PutStep(i) => mtxMap = Executor(i) /\ Writers = {i}
       /\ \A r \in Conns : CountStep(r) => mtxMap = Handler(r) /\ Writers = {}]_vars

\* ------------------------------------------------------------- C15
\* The step in which r's doShutdown, entered with GET, executes line 208.
FlagSetStep(r) ==
    /\ pc[r] = "shut_entry" /\ pc'[r] = "shut_lock"
    /\ request[r].path = ShutdownPath /\ request[r].method = "GET"

\* C15: bShutdown is write-once.  It is false until a request has been
\* handled; once true it stays true; it changes only in the step of a GET
\* /shutdown that sets it; and that step leaves it true also when it was true
\* already.
C15_FlagWriteOnce ==
    [][/\ (\A r \in Conns : pc[r] \in {"idle", "hash_gate", "stats_entry", "shut_entry"})
            => ~bShutdown
       /\ bShutdown => bShutdown'
       /\ bShutdown' # bShutdown => \E r \in Conns : FlagSetStep(r)
       /\ \A r \in Conns : FlagSetStep(r) => bShutdown']_vars

\* C15's case: a second GET /shutdown has set the flag that the first, still
\* in its polling loop, had set before.
C15_Witness ==
    \E r, q \in Conns :
        /\ r # q
        /\ request[r].path = ShutdownPath /\ request[r].method = "GET"
        /\ request[q].path = ShutdownPath /\ request[q].method = "GET"
        /\ InDrainLoop(r) /\ InDrainLoop(q)
        /\ bShutdown

\* ------------------------------------------------------------- C16
\* Connections whose doShutdown, entered with GET, has executed line 208.
ShuttingDown ==
    {r \in Conns : /\ request[r].path = ShutdownPath /\ request[r].method = "GET"
                   /\ pc[r] \notin {"idle", "shut_entry"}}

\* A step of r's doShutdown.
ShutdownStep(r) ==
    /\ pc[r] \in {"shut_entry", "shut_lock", "shut_count", "shut_cmp", "shut_farewell"}
    /\ pc'[r] # pc[r]

\* C16: /shutdown is re-entrant.  Where two shutdown requests have both set
\* the flag, each of them has written the farewell by the time the process has
\* stopped.
C16_EveryShutdownAnswered ==
    process # "running" =>
        \A r, q \in ShuttingDown : r # q => SaidFarewell(r) /\ SaidFarewell(q)

\* C16 as far as the code has it: a GET /shutdown that finds the flag set is
\* not turned away but enters its own polling loop; no step of a doShutdown
\* changes requestID, elapsedTime or resultMap; and it writes the farewell only
\* after a comparison of its own found its count equal to requestID.
C16_ShutdownReentrant ==
    [][\A r \in Conns :
          /\ (FlagSetStep(r) /\ bShutdown) =>
                response'[r] = NoResponse /\ bShutdown' /\ InDrainLoop(r)'
          /\ ShutdownStep(r) => UNCHANGED <<requestID, elapsedTime, resultMap>>
          /\ (ShutdownStep(r) /\ SaidFarewell(r)') => pc[r] = "shut_farewell"
          /\ (ShutdownStep(r) /\ pc'[r] = "shut_farewell") =>
                pc[r] = "shut_cmp" /\ count[r] = requestID]_vars

\* The case of C16_ShutdownReentrant: two shutdown requests, the second
\* entered with the flag set, have both written the farewell.
C16_Reentered ==
    \E r, q \in ShuttingDown :
        r # q /\ SaidFarewell(r) /\ SaidFarewell(q) /\ stoppers = 2

\* ------------------------------------------------------------- C17
\* C17: the steps of a shutdown request come in order.  bShutdown is true from
\* before its first poll; it reaches the farewell only from a comparison that
\* found the len it took equal to requestID, and writes the farewell only from
\* there; a listener stop is pending or done only for requests that have
\* written the farewell, and the process exits only through such a stop.
C17_ShutdownStepsInOrder ==
    [][/\ \A r \in Conns :
            /\ (InDrainLoop(r) \/ pc[r] = "shut_farewell") => bShutdown
            /\ (pc'[r] = "shut_farewell" /\ pc[r] # "shut_farewell") =>
                  pc[r] = "shut_cmp" /\ count[r] = requestID
            /\ (SaidFarewell(r)' /\ ~SaidFarewell(r)) =>
                  pc[r] = "shut_farewell" /\ stoppers' = stoppers + 1
       /\ stoppers' > stoppers => \E r \in Conns : SaidFarewell(r)' /\ ~SaidFarewell(r)
       /\ stoppers <= Cardinality({r \in Conns : SaidFarewell(r)})
       /\ (process' = "exited" /\ process = "running") =>
            stoppers > 0 /\ \E r \in Conns : SaidFarewell(r)]_vars

\* C17's case: a shutdown that began with an identifier still without its
\* entry has polled, written the farewell and stopped the listener.
C17_Witness ==
    /\ process = "exited"
    /\ \E r \in Conns : SaidFarewell(r) /\ doneAtGate[r] < issuedAtGate[r]

\* ------------------------------------------------------------- C18
\* The delayAndUpdate goroutines launched for the identifier id.
TasksOf(id) == {i \in 1..Len(tasks) : tasks[i].requestId = id}

\* C18: the identifier is written to the caller before the entry of that
\* identifier is stored: an identifier with its entry in resultMap has been
\* returned by its submission.
C18_ResponseBeforeEntry ==
    \A r \in Allocated : num[r] \in DOMAIN resultMap => r \in Returned

\* C18 as the code has it: doHash never waits for the goroutine it launched.
\* From the launch to the write of the identifier its next step can always be
\* taken, whatever the goroutine has done, and mtxId, the one lock it takes
\* afterwards, is never held by a delayAndUpdate goroutine; the goroutine is
\* launched before the identifier is written.  (That the entry comes after the
\* response rests on the goroutine's DelayTime sleep, not on any synchronisation.)
C18_SubmissionNeverWaits ==
    /\ \A r \in Conns :
          (Running /\ pc[r] \in {"hash_go", "hash_reply"}) => ENABLED HandlerStep(r)
    /\ mtxId \in {Free} \cup {Handler(r) : r \in Conns}
    /\ \A r \in Returned : TasksOf(num[r]) # {}

\* C18's case: one submission has returned its identifier with its goroutine
\* still in the delay, another is about to return its identifier with its
\* entry already stored.
C18_Witness ==
    \E r, q \in Allocated :
        /\ r \in Returned /\ \E i \in TasksOf(num[r]) : tasks[i].pc = "delay"
        /\ pc[q] = "hash_reply" /\ num[q] \in DOMAIN resultMap

\* ------------------------------------------------------------- C19
\* Connections whose doHash has executed requestID++ (line 127) and not yet
\* go delayAndUpdate (line 132).
Unlaunched == {r \in Conns : pc[r] \in {"hash_fmt", "hash_go"}}

\* C19: the keys of resultMap are identifiers already issued, so len(resultMap)
\* <= requestID, with equality exactly when no delayAndUpdate goroutine is
\* outstanding.
C19_EqualIffNoneOutstanding ==
    /\ DOMAIN resultMap \subseteq IdTexts(requestID)
    /\ MapLen(resultMap) <= requestID
    /\ (MapLen(resultMap) = requestID) <=> (Outstanding = {})

\* C19 as the code has it: the keys of resultMap are identifiers already
\* issued, so len(resultMap) <= requestID, with equality exactly when no
\* delayAndUpdate goroutine is outstanding and no doHash stands between its
\* requestID++ and the launch of its goroutine.
C19_EqualIffAllStored ==
    /\ DOMAIN resultMap \subseteq IdTexts(requestID)
    /\ MapLen(resultMap) <= requestID
    /\ (MapLen(resultMap) = requestID) <=> (Outstanding = {} /\ Unlaunched = {})

\* C19's case: the first identifier has its entry, the second is issued and
\* its goroutine not launched yet, so that none is outstanding and the two
\* numbers differ.
C19_Witness ==
    /\ Outstanding = {}
    /\ \E r \in Conns : pc[r] = "hash_go" /\ num[r] = "2"
    /\ MapLen(resultMap) = 1
    /\ requestID = 2

\* ------------------------------------------------------------- C20
\* Where a handler stands while it holds mtxId (lines 127-128, 142, 176-177)
\* and while it holds mtxMap (line 216).
InsideId(r) == pc[r] \in {"hash_inc", "hash_fmt", "hash_stat", "stats_read"}

InsideMap(r) == pc[r] = "shut_count"

\* Where a handler stands while it waits in a Lock call.
AtLock(r) == pc[r] \in {"hash_lockId", "hash_lockStat", "stats_lock", "shut_lock"}

\* C20: the two locks cannot deadlock.  A goroutine holds a lock exactly while
\* it stands inside the statements between that lock's Lock and Unlock, which
\* are never inside the other lock's and contain no Lock call; no goroutine
\* holds both; the holder of a lock can always take its next step; and while
\* the process runs and a goroutine waits in a Lock call, some goroutine can
\* take a step.
C20_LocksCannotDeadlock ==
    /\ \A r \in Conns :
          /\ (mtxId = Handler(r)) <=> InsideId(r)
          /\ (mtxMap = Handler(r)) <=> InsideMap(r)
          /\ ~(mtxId = Handler(r) /\ mtxMap = Handler(r))
          /\ (Running /\ (InsideId(r) \/ InsideMap(r))) => ENABLED HandlerStep(r)
    /\ \A i \in 1..MaxTasks :
          /\ (mtxMap = Executor(i)) <=> (i \in Writers)
          /\ mtxId # Executor(i)
          /\ (Running /\ i \in Writers) => ENABLED ExecStep(i)
    /\ (Running /\ \E r \in Conns : AtLock(r)) =>
          \/ \E r \in Conns : ENABLED HandlerStep(r)
          \/ \E i \in 1..MaxTasks : ENABLED ExecStep(i)

\* C20's case: both locks are held and waited for at once; a doHash holds
\* mtxId with another doHash waiting for it, a delayAndUpdate goroutine holds
\* mtxMap with a doShutdown waiting for it.
C20_Witness ==
    /\ \E r, q \in Conns : mtxId = Handler(r) /\ pc[q] = "hash_lockStat"
    /\ \E i \in Writers, r \in Conns : mtxMap = Executor(i) /\ pc[r] = "shut_lock"

====
